---- MODULE Spec2Model ----
(***************************************************************************)
(* Model of scripts/generate-registry.js: the registry generator that      *)
(* reads index.json, queries GitHub and npm for every plugin and emits a   *)
(* report of the major tracks (v0, v1) each plugin supports.               *)
(*                                                                         *)
(* Three specifications share the module:                                  *)
(*   SpecSel   the two per-source version selectors (getLatestGitTags,     *)
(*             inspectNpm) applied to bounded version lists;               *)
(*   SpecRepo  one processRepo invocation, one step per awaited remote     *)
(*             call, retries included;                                     *)
(*   Spec      parseRegistry: filtering, batches, Promise.all, the report. *)
(***************************************************************************)
EXTENDS Integers, Sequences, FiniteSets, TLC

VARIABLES
  \* ---- SpecSel
  selData,        \* what the source answers: a list of version strings, or the failure
  selGit,         \* what getLatestGitTags returned ("pending" before)
  selNpm,         \* what inspectNpm returned or that it threw
  \* ---- SpecRepo (one processRepo invocation)
  gitRef,         \* the gitRef argument
  rpc,            \* position in processRepo
  brAttempt,      \* getGitHubBranches: attempt counter (0 once it has returned)
  branches,       \* resolved branch list (NotYet before)
  pkgAttempt,     \* fetchPackageJSON: attempt counter per candidate branch (0 once returned)
  pkgResults,     \* settled value per candidate branch (NotYet before)
  gitTagInfo,     \* resolved tagsPromise
  npmInfo,        \* resolved npmPromise
  pkgSignals,     \* per manifest of pkgs: which of the two ifs of the loop fired
  supportedBranches,
  supports,
  gitInfo,
  issues,
  \* ---- Spec (parseRegistry)
  registry,       \* Object.entries(registry) of index.json
  batchSize,      \* CONFIG.BATCH_SIZE
  ppc,            \* position in parseRegistry
  entries,        \* Object.entries(filteredRegistry)
  idx,            \* the loop variable i
  task,           \* per position of entries: "idle", "running", "fulfilled", "rejected"
  taskResult,     \* per position: what the fulfilled promise holds
  started,        \* per position: how many times processRepo was invoked on it
  invoked,        \* every gitRef processRepo was ever invoked with
  report

selVars  == <<selData, selGit, selNpm>>
repoVars == <<gitRef, rpc, brAttempt, branches, pkgAttempt, pkgResults, gitTagInfo,
              npmInfo, pkgSignals, supportedBranches, supports, gitInfo, issues>>
runVars  == <<registry, batchSize, ppc, entries, idx, task, taskResult, started,
              invoked, report>>
vars     == <<selVars, repoVars, runVars>>

-----------------------------------------------------------------------------
(* Bounds of the model *)

MaxMinor == 1      \* version strings have minors 0..MaxMinor
MaxPre == 1        \* prerelease "-beta.n" for n in 1..MaxPre; 0 is a stable version
MaxVersions == 2   \* length of a tag list or of an npm version list
MaxEntries == 3    \* entries of index.json
MaxBatch == 2      \* CONFIG.BATCH_SIZE ranges over 1..MaxBatch

(* Program constants *)
RETRY_ATTEMPTS == 3

-----------------------------------------------------------------------------
(* Version strings and the semver library calls the program makes           *)

\* A version string as the program meets it: a tag name, a key of
\* meta.versions, the "version" of a package.json. kind "semver" is a string
\* semver parses (pfx is its leading "v" if any), "garbage" one it does not,
\* "null" is null/undefined/"".
Ver(k, p, ma, mi, pa, pr) ==
  [kind |-> k, pfx |-> p, major |-> ma, minor |-> mi, patch |-> pa, pre |-> pr]

Null == Ver("null", "", 0, 0, 0, 0)
Garbage == Ver("garbage", "", 0, 0, 0, 0)

\* The two major tracks, and one major that is neither
Majors == {0, 1, 2}

VersionStrings ==
  { Ver("semver", p, ma, mi, 0, pr) :
      p \in {"", "v"}, ma \in Majors, mi \in 0..MaxMinor, pr \in 0..MaxPre }
  \cup {Garbage}

Truthy(v) == v.kind # "null"

\* semver.clean: the version without its prefix, null when it does not parse
clean(v) == IF v.kind = "semver" THEN [v EXCEPT !.pfx = ""] ELSE Null

\* new SemVer(v) throws a TypeError on null and on a string that does not parse
Invalid(v) == v.kind # "semver"

\* String.prototype.includes('-') on a version string
IsPrerelease(v) == v.pre # 0

\* semver.compare(a, b) > 0: main version first, then a stable version is
\* above every prerelease of it, then the prerelease identifiers
Gt(a, b) ==
  \/ a.major > b.major
  \/ a.major = b.major /\ a.minor > b.minor
  \/ a.major = b.major /\ a.minor = b.minor /\ a.patch > b.patch
  \/ /\ a.major = b.major /\ a.minor = b.minor /\ a.patch = b.patch
     /\ \/ a.pre = 0 /\ b.pre # 0
        \/ a.pre # 0 /\ b.pre # 0 /\ a.pre > b.pre

\* Array.prototype.sort with semver.rcompare over the cleaned names: highest
\* first, and stable (what compares equal keeps its order)
RECURSIVE InsertDesc(_, _)
InsertDesc(x, s) ==
  IF s = <<>> THEN <<x>>
  ELSE IF Gt(clean(x), clean(Head(s))) THEN <<x>> \o s
  ELSE <<Head(s)>> \o InsertDesc(x, Tail(s))

RECURSIVE SortDesc(_)
SortDesc(s) ==
  IF s = <<>> THEN <<>>
  ELSE InsertDesc(s[Len(s)], SortDesc(SubSeq(s, 1, Len(s) - 1)))

\* semver.major of a version semver accepts
major(v) == v.major

\* Array.prototype.filter(tag => semver.clean(tag.name))
RECURSIVE FilterValid(_)
FilterValid(s) ==
  IF s = <<>> THEN <<>>
  ELSE (IF Truthy(clean(Head(s))) THEN <<Head(s)>> ELSE <<>>) \o FilterValid(Tail(s))

\* Array.prototype.filter(v => semver.major(v) === m)
RECURSIVE FilterMajor(_, _)
FilterMajor(s, m) ==
  IF s = <<>> THEN <<>>
  ELSE (IF major(clean(Head(s))) = m THEN <<Head(s)>> ELSE <<>>) \o FilterMajor(Tail(s), m)

\* Array.prototype.find(v => semver.major(v) === m), undefined (Null) when
\* nothing matches
RECURSIVE FindMajor(_, _)
FindMajor(s, m) ==
  IF s = <<>> THEN Null
  ELSE IF major(clean(Head(s))) = m THEN Head(s) ELSE FindMajor(Tail(s), m)

\* Array.prototype.find(v => !v.includes('-'))
RECURSIVE FindStable(_)
FindStable(s) ==
  IF s = <<>> THEN Null
  ELSE IF ~IsPrerelease(clean(Head(s))) THEN Head(s) ELSE FindStable(Tail(s))

Range(s) == { s[i] : i \in DOMAIN s }

-----------------------------------------------------------------------------
(* The per-source version selectors                                         *)

\* What a remote call answered: a list, or nothing (it threw, or answered not ok)
Resp(l) == [ok |-> TRUE, list |-> l]
Failed == [ok |-> FALSE, list |-> <<>>]
Pending == [st |-> "pending", v0 |-> Null, v1 |-> Null]
Thrown == [st |-> "thrown", v0 |-> Null, v1 |-> Null]
Sel(a, b) == [st |-> "ok", v0 |-> a, v1 |-> b]

\* lines 113-122 and 151-160: the first stable one of the sorted versions of
\* major 1, else the first of them
PickV1(v1s) ==
  IF Len(v1s) > 0
  THEN LET stable == FindStable(v1s)
       IN IF Truthy(stable) THEN stable ELSE v1s[1]
  ELSE Null

\* lines 107 and 145: the first of the sorted versions that has major 0
PickV0(sorted) == FindMajor(sorted, 0)

\* data: what octokit.rest.repos.listTags answered, or Failed when it threw
getLatestGitTags(data) ==
  IF ~data.ok THEN Sel(Null, Null)
  ELSE LET validTags == FilterValid(data.list)
           sorted == SortDesc(validTags)
           v1Tags == FilterMajor(sorted, 1)
       IN Sel(PickV0(sorted), PickV1(v1Tags))

\* semver.rcompare and semver.major throw on a string semver rejects: sort
\* calls the comparator on every element of a list of two or more, find and
\* filter call semver.major on the elements of a shorter one
NpmThrows(keys) ==
  \/ Len(keys) >= 2 /\ \E v \in Range(keys) : Invalid(v)
  \/ Len(keys) = 1 /\ Invalid(keys[1])

\* keys: Object.keys(meta.versions), or Failed when safeFetchJSON gave null
\* or the answer has no versions
inspectNpm(keys) ==
  IF ~keys.ok THEN Sel(Null, Null)
  ELSE IF NpmThrows(keys.list) THEN Thrown
  ELSE LET sorted == SortDesc(keys.list)
           v1Versions == FilterMajor(sorted, 1)
       IN Sel(PickV0(sorted), PickV1(v1Versions))

-----------------------------------------------------------------------------
(* Git references                                                           *)

\* The value of an index.json entry. str: typeof value === "string";
\* github: it starts with "github:"; segs: what follows "github:", split at "/"
Ref(isStr, gh, sg) == [str |-> isStr, github |-> gh, segs |-> sg]

RefOwnerRepo == Ref(TRUE, TRUE, <<"owner", "repo">>)    \* "github:owner/repo"
RefOwnerOnly == Ref(TRUE, TRUE, <<"owner">>)            \* "github:owner"
RefRepoOnly  == Ref(TRUE, TRUE, <<"", "repo">>)         \* "github:/repo"
RefOtherHost == Ref(TRUE, FALSE, <<>>)                  \* "gitlab:owner/repo"
RefNotString == Ref(FALSE, FALSE, <<>>)                 \* 42, null, {...}

GitRefs == {RefOwnerRepo, RefOwnerOnly, RefRepoOnly, RefOtherHost}

\* const [owner, repo] = repoPath.split("/"): a missing segment is undefined
Seg(ref, i) == IF i <= Len(ref.segs) THEN ref.segs[i] ELSE ""

parseGitRef(ref) ==
  IF ~ref.github THEN [ok |-> FALSE, owner |-> "", repo |-> ""]
  ELSE IF Seg(ref, 1) = "" \/ Seg(ref, 2) = ""
       THEN [ok |-> FALSE, owner |-> "", repo |-> ""]
       ELSE [ok |-> TRUE, owner |-> Seg(ref, 1), repo |-> Seg(ref, 2)]

-----------------------------------------------------------------------------
(* Branches and manifests                                                   *)

\* line 200: the probe order
CandidateOrder == <<"main", "master", "0.x", "1.x">>

RECURSIVE FilterIncluded(_, _)
FilterIncluded(order, names) ==
  IF order = <<>> THEN <<>>
  ELSE (IF Head(order) \in names THEN <<Head(order)>> ELSE <<>>)
       \o FilterIncluded(Tail(order), names)

\* lines 200-202
branchCandidates(brs) == FilterIncluded(CandidateOrder, Range(brs))

\* lines 197-205
IssuesOf(brs) ==
  (IF Len(brs) = 0 THEN <<"No branches found">> ELSE <<>>)
  \o (IF Len(branchCandidates(brs)) = 0 /\ Len(brs) > 0
      THEN <<"No standard branches found">> ELSE <<>>)

\* A dependency range on @elizaos/core. kind "absent": neither dependencies
\* nor peerDependencies name it; "garbage": a string semver.Range rejects
\* ("workspace:*"); "range": lo <= v, and v < hi when bounded
Rng(k, l, h, b) == [kind |-> k, lo |-> l, hi |-> h, bounded |-> b]

RangeAbsent  == Rng("absent", <<0, 0, 0>>, <<0, 0, 0>>, FALSE)
RangeGarbage == Rng("garbage", <<0, 0, 0>>, <<0, 0, 0>>, FALSE)
RangeCaret09 == Rng("range", <<0, 9, 0>>, <<0, 10, 0>>, TRUE)    \* "^0.9.0"
RangeCaret10 == Rng("range", <<1, 0, 0>>, <<2, 0, 0>>, TRUE)     \* "^1.0.0"
RangeFrom09  == Rng("range", <<0, 9, 0>>, <<0, 0, 0>>, FALSE)    \* ">=0.9.0"

TripleLt(a, b) ==
  \/ a[1] < b[1]
  \/ a[1] = b[1] /\ a[2] < b[2]
  \/ a[1] = b[1] /\ a[2] = b[2] /\ a[3] < b[3]

\* semver.satisfies(version, range): false when the range does not parse
satisfies(probe, r) ==
  /\ r.kind = "range"
  /\ ~TripleLt(probe, r.lo)
  /\ r.bounded => TripleLt(probe, r.hi)

Probe0 == <<0, 9, 0>>     \* line 235
Probe1 == <<1, 0, 0>>     \* line 236

\* What fetchPackageJSON settles to: null, or { version, coreRange }
Pkg(v, r) == [st |-> "pkg", version |-> v, coreRange |-> r]
PkgNull == [st |-> "null", version |-> Null, coreRange |-> RangeAbsent]
PkgPending == [st |-> "pending", version |-> Null, coreRange |-> RangeAbsent]

\* "version" of a package.json
Ver050 == Ver("semver", "", 0, 5, 0, 0)
Ver120 == Ver("semver", "", 1, 2, 0, 0)
Ver200 == Ver("semver", "", 2, 0, 0, 0)

\* The manifests a branch may hold
Manifests ==
  { Pkg(Ver050, RangeCaret09), Pkg(Ver050, RangeCaret10), Pkg(Ver050, RangeFrom09),
    Pkg(Ver120, RangeCaret09), Pkg(Ver120, RangeCaret10), Pkg(Ver120, RangeFrom09),
    Pkg(Ver200, RangeCaret10), Pkg(Ver050, RangeAbsent), Pkg(Ver120, RangeGarbage),
    Pkg(Null, RangeCaret09), Pkg(Garbage, RangeCaret10) }

NoBranch == "null"

\* lines 218-227: the manifests found, in the order of the candidates
RECURSIVE pkgsOf(_, _)
pkgsOf(cands, results) ==
  IF cands = <<>> THEN <<>>
  ELSE (IF results[Head(cands)].st = "pkg"
        THEN <<[version |-> results[Head(cands)].version,
                coreRange |-> results[Head(cands)].coreRange,
                branch |-> Head(cands)]>>
        ELSE <<>>)
       \o pkgsOf(Tail(cands), results)

\* line 233
HasVersionAndRange(pkg) == Truthy(pkg.version) /\ pkg.coreRange.kind # "absent"

\* line 234: semver.major(null) throws
MajorThrows(pkg) == Invalid(clean(pkg.version))

\* line 240
HitV0(pkg) == major(clean(pkg.version)) = 0 /\ satisfies(Probe0, pkg.coreRange)

\* the v1 test without the check of the declared major
HitV1AnyMajor(pkg) == satisfies(Probe1, pkg.coreRange)

\* line 247
HitV1(pkg) == major(clean(pkg.version)) >= 1 /\ satisfies(Probe1, pkg.coreRange)

\* the flags starting as true
ClassInitTrue ==
  [thrown |-> FALSE, v0 |-> TRUE, v1 |-> TRUE, b0 |-> NoBranch, b1 |-> NoBranch,
   sigs |-> <<>>]

\* lines 213-216 and 229-230
ClassInit ==
  [thrown |-> FALSE, v0 |-> FALSE, v1 |-> FALSE, b0 |-> NoBranch, b1 |-> NoBranch,
   sigs |-> <<>>]

\* lines 241-242 and 248-249: what a positive manifest does to the branch
RecordBranch(old, new) == new

\* One iteration of the loop of lines 232-252
ClassStep(acc, pkg) ==
  IF HasVersionAndRange(pkg)
  THEN IF MajorThrows(pkg) THEN [acc EXCEPT !.thrown = TRUE]
       ELSE [thrown |-> FALSE,
             v0 |-> acc.v0 \/ HitV0(pkg),
             v1 |-> acc.v1 \/ HitV1(pkg),
             b0 |-> IF HitV0(pkg) THEN RecordBranch(acc.b0, pkg.branch) ELSE acc.b0,
             b1 |-> IF HitV1(pkg) THEN RecordBranch(acc.b1, pkg.branch) ELSE acc.b1,
             sigs |-> Append(acc.sigs,
                       [branch |-> pkg.branch, v0 |-> HitV0(pkg), v1 |-> HitV1(pkg)])]
  ELSE [acc EXCEPT !.sigs =
          Append(@, [branch |-> pkg.branch, v0 |-> FALSE, v1 |-> FALSE])]

\* lines 229-252: the loop stops where semver.major throws
RECURSIVE ClassLoop(_, _)
ClassLoop(acc, pkgs) ==
  IF pkgs = <<>> \/ acc.thrown THEN acc
  ELSE ClassLoop(ClassStep(acc, Head(pkgs)), Tail(pkgs))

\* the v0 test reading the v1 version of npm
NpmSupportsV0Wrong(npm) == Truthy(npm.v1) /\ major(clean(npm.v1)) = 0

\* lines 258-263
NpmSupportsV0(npm) == Truthy(npm.v0) /\ major(clean(npm.v0)) = 0

\* lines 264-269
NpmSupportsV1(npm) == Truthy(npm.v1) /\ major(clean(npm.v1)) >= 1

\* the npm version taken before the git tag
Or3NpmFirst(a, b) == IF Truthy(b) THEN b ELSE IF Truthy(a) THEN a ELSE Null

\* a || b || null
Or3(a, b) == IF Truthy(a) THEN a ELSE IF Truthy(b) THEN b ELSE Null

\* lines 254-298, once both promises are fulfilled
Reconcile(cls, tags, npm) ==
  [git |-> [v0 |-> [version |-> Or3(tags.v0, npm.v0), branch |-> cls.b0],
            v1 |-> [version |-> Or3(tags.v1, npm.v1), branch |-> cls.b1]],
   npm |-> npm,
   supports |-> [v0 |-> cls.v0 \/ NpmSupportsV0(npm),
                 v1 |-> cls.v1 \/ NpmSupportsV1(npm)]]

NoInfo ==
  [git |-> [v0 |-> [version |-> Null, branch |-> NoBranch],
            v1 |-> [version |-> Null, branch |-> NoBranch]],
   npm |-> Pending,
   supports |-> [v0 |-> FALSE, v1 |-> FALSE]]

-----------------------------------------------------------------------------
(* SpecSel: the two selectors on bounded version lists                      *)

VersionLists == UNION { [1..n -> VersionStrings] : n \in 0..MaxVersions }

Responses == {Failed} \cup { Resp(l) : l \in VersionLists }

SelIdle == selData = Failed /\ selGit = Pending /\ selNpm = Pending

RunGetLatestGitTags ==
  /\ selGit = Pending
  /\ selGit' = getLatestGitTags(selData)
  /\ UNCHANGED <<selData, selNpm, repoVars, runVars>>

RunInspectNpm ==
  /\ selNpm = Pending
  /\ selNpm' = inspectNpm(selData)
  /\ UNCHANGED <<selData, selGit, repoVars, runVars>>

-----------------------------------------------------------------------------
(* SpecRepo: one invocation of processRepo                                  *)

CandidateNames == Range(CandidateOrder)

\* What listBranches may answer
BranchLists ==
  { <<>>, <<"dev">>, <<"main">>, <<"1.x", "main">>, <<"master", "0.x", "dev">> }

V(ma, mi, pr) == Ver("semver", "v", ma, mi, 0, pr)
N(ma, mi, pr) == Ver("semver", "", ma, mi, 0, pr)

\* What listTags may answer for the repository
RepoTagResponses ==
  { Failed, Resp(<<>>), Resp(<<V(0, 1, 0)>>), Resp(<<V(1, 0, 0), Garbage>>),
    Resp(<<V(0, 1, 0), V(1, 0, 1)>>) }

\* What the npm registry may answer for the package
RepoNpmResponses ==
  { Failed, Resp(<<>>), Resp(<<N(0, 3, 0)>>), Resp(<<N(1, 1, 0)>>),
    Resp(<<N(0, 3, 0), N(1, 1, 0)>>), Resp(<<N(1, 0, 0), Garbage>>) }

BranchesPending == [st |-> "pending", list |-> <<>>]

RepoStart(ref) ==
  /\ gitRef = ref
  /\ rpc = "init"
  /\ brAttempt = 1
  /\ branches = BranchesPending
  /\ pkgAttempt = [b \in CandidateNames |-> 1]
  /\ pkgResults = [b \in CandidateNames |-> PkgPending]
  /\ gitTagInfo = Pending
  /\ npmInfo = Pending
  /\ pkgSignals = <<>>
  /\ supportedBranches = [v0 |-> NoBranch, v1 |-> NoBranch]
  /\ supports = [v0 |-> FALSE, v1 |-> FALSE]
  /\ gitInfo = NoInfo.git
  /\ issues = <<>>

RepoIdle == RepoStart(RefOwnerRepo)

\* lines 179-193: parse the reference, kick off the three remote calls
Invoke ==
  /\ rpc = "init"
  /\ rpc' = IF parseGitRef(gitRef).ok THEN "branches" ELSE "thrown"
  /\ UNCHANGED <<gitRef, brAttempt, branches, pkgAttempt, pkgResults, gitTagInfo,
                 npmInfo, pkgSignals, supportedBranches, supports, gitInfo, issues>>
  /\ UNCHANGED <<selVars, runVars>>

\* lines 196-210: branchesPromise is fulfilled with brs
BranchesResolve(brs) ==
  /\ branches' = [st |-> "ok", list |-> brs]
  /\ brAttempt' = 0
  /\ issues' = IssuesOf(brs)
  /\ rpc' = "pkgs"
  /\ UNCHANGED <<gitRef, pkgAttempt, pkgResults, gitTagInfo, npmInfo,
                 pkgSignals, supportedBranches, supports, gitInfo>>
  /\ UNCHANGED <<selVars, runVars>>

\* lines 46-47
BranchesOk ==
  /\ rpc = "branches"
  /\ \E brs \in BranchLists : BranchesResolve(brs)

\* lines 48-55: listBranches threw
BranchesFail ==
  /\ rpc = "branches"
  /\ IF brAttempt = RETRY_ATTEMPTS
     THEN BranchesResolve(<<>>)
     ELSE /\ brAttempt' = brAttempt + 1
          /\ UNCHANGED <<gitRef, rpc, branches, pkgAttempt, pkgResults, gitTagInfo,
                         npmInfo, pkgSignals, supportedBranches, supports, gitInfo,
                         issues>>
          /\ UNCHANGED <<selVars, runVars>>

PkgWaiting(b) ==
  /\ rpc = "pkgs"
  /\ b \in Range(branchCandidates(branches.list))
  /\ pkgResults[b].st = "pending"

PkgSettle(b, m) ==
  /\ pkgResults' = [pkgResults EXCEPT ![b] = m]
  /\ pkgAttempt' = [pkgAttempt EXCEPT ![b] = 0]
  /\ UNCHANGED <<gitRef, rpc, brAttempt, branches, gitTagInfo, npmInfo,
                 pkgSignals, supportedBranches, supports, gitInfo, issues>>
  /\ UNCHANGED <<selVars, runVars>>

\* lines 71-76: package.json was fetched and parsed
PkgOk(b) ==
  /\ PkgWaiting(b)
  /\ \E m \in Manifests : PkgSettle(b, m)

\* line 70: the answer has no content
PkgNoContent(b) ==
  /\ PkgWaiting(b)
  /\ PkgSettle(b, PkgNull)

\* lines 77-84: getContent or JSON.parse threw
PkgFail(b) ==
  /\ PkgWaiting(b)
  /\ IF pkgAttempt[b] = RETRY_ATTEMPTS
     THEN PkgSettle(b, PkgNull)
     ELSE /\ pkgAttempt' = [pkgAttempt EXCEPT ![b] = @ + 1]
          /\ UNCHANGED <<gitRef, rpc, brAttempt, branches, pkgResults, gitTagInfo,
                         npmInfo, pkgSignals, supportedBranches, supports, gitInfo,
                         issues>>
          /\ UNCHANGED <<selVars, runVars>>

Running == rpc \in {"branches", "pkgs", "await"}

\* lines 90-133: tagsPromise settles
TagsResolve ==
  /\ Running
  /\ gitTagInfo = Pending
  /\ \E data \in RepoTagResponses : gitTagInfo' = getLatestGitTags(data)
  /\ UNCHANGED <<gitRef, rpc, brAttempt, branches, pkgAttempt, pkgResults, npmInfo,
                 pkgSignals, supportedBranches, supports, gitInfo, issues>>
  /\ UNCHANGED <<selVars, runVars>>

\* lines 136-167: npmPromise settles
NpmResolve ==
  /\ Running
  /\ npmInfo = Pending
  /\ \E keys \in RepoNpmResponses : npmInfo' = inspectNpm(keys)
  /\ UNCHANGED <<gitRef, rpc, brAttempt, branches, pkgAttempt, pkgResults, gitTagInfo,
                 pkgSignals, supportedBranches, supports, gitInfo, issues>>
  /\ UNCHANGED <<selVars, runVars>>

\* lines 210-252: allSettled is fulfilled, pkgs is built, the loop runs
Classify ==
  /\ rpc = "pkgs"
  /\ \A b \in Range(branchCandidates(branches.list)) : pkgResults[b].st # "pending"
  /\ LET cls == ClassLoop(ClassInit,
                          pkgsOf(branchCandidates(branches.list), pkgResults))
     IN /\ pkgSignals' = cls.sigs
        /\ supportedBranches' = [v0 |-> cls.b0, v1 |-> cls.b1]
        /\ supports' = [v0 |-> cls.v0, v1 |-> cls.v1]
        /\ rpc' = IF cls.thrown THEN "thrown" ELSE "await"
  /\ UNCHANGED <<gitRef, brAttempt, branches, pkgAttempt, pkgResults, gitTagInfo,
                 npmInfo, gitInfo, issues>>
  /\ UNCHANGED <<selVars, runVars>>

\* lines 254-298: Promise.all settles; a rejected npmPromise is rethrown
Return ==
  /\ rpc = "await"
  /\ gitTagInfo # Pending
  /\ npmInfo # Pending
  /\ IF npmInfo.st = "thrown"
     THEN /\ rpc' = "thrown"
          /\ UNCHANGED <<supports, gitInfo>>
     ELSE LET cls == [v0 |-> supports.v0, v1 |-> supports.v1,
                      b0 |-> supportedBranches.v0, b1 |-> supportedBranches.v1]
              res == Reconcile(cls, gitTagInfo, npmInfo)
          IN /\ supports' = res.supports
             /\ gitInfo' = res.git
             /\ rpc' = "returned"
  /\ UNCHANGED <<gitRef, brAttempt, branches, pkgAttempt, pkgResults, gitTagInfo,
                 npmInfo, pkgSignals, supportedBranches, issues>>
  /\ UNCHANGED <<selVars, runVars>>

\* npmPromise is rejected while processRepo still awaits the branches or the
\* manifests: no handler is attached to it yet, and Node ends the process on
\* the unhandled rejection
UnhandledRejection ==
  /\ rpc \in {"branches", "pkgs"}
  /\ npmInfo.st = "thrown"
  /\ rpc' = "crashed"
  /\ UNCHANGED <<gitRef, brAttempt, branches, pkgAttempt, pkgResults, gitTagInfo,
                 npmInfo, pkgSignals, supportedBranches, supports, gitInfo, issues>>
  /\ UNCHANGED <<selVars, runVars>>

-----------------------------------------------------------------------------
(* processRepo as one function of what the remote sources answer            *)

\* What the remote sources answer for one plugin
World(brs, pk, tg, np) == [branches |-> brs, pkgs |-> pk, tags |-> tg, npm |-> np]

NoManifests == [b \in CandidateNames |-> PkgNull]

\* every source is down
WorldDown == World(Failed, NoManifests, Failed, Failed)
\* every source answers
WorldUp ==
  World(Resp(<<"main">>),
        [NoManifests EXCEPT !["main"] = Pkg(N(0, 5, 0), RangeCaret09)],
        Resp(<<V(0, 5, 0)>>), Resp(<<N(0, 5, 0)>>))
\* the tags cannot be listed, npm answers
WorldNoTags ==
  World(Resp(<<"main">>), NoManifests, Failed, Resp(<<N(1, 0, 0)>>))
\* the branches cannot be listed, npm publishes a key that is no version
WorldBadKey ==
  World(Failed, NoManifests, Resp(<<V(1, 0, 0)>>), Resp(<<Garbage>>))

Worlds == {WorldDown, WorldUp, WorldNoTags, WorldBadKey}

Rejected == [st |-> "rejected", info |-> NoInfo, issues |-> <<>>]

\* lines 178-299
processRepo(ref, w) ==
  IF ~parseGitRef(ref).ok THEN Rejected
  ELSE LET brs == IF w.branches.ok THEN w.branches.list ELSE <<>>
           cls == ClassLoop(ClassInit, pkgsOf(branchCandidates(brs), w.pkgs))
           tags == getLatestGitTags(w.tags)
           npm == inspectNpm(w.npm)
       IN IF cls.thrown \/ npm.st = "thrown" THEN Rejected
          ELSE [st |-> "fulfilled", info |-> Reconcile(cls, tags, npm),
                issues |-> IssuesOf(brs)]

-----------------------------------------------------------------------------
(* Spec: parseRegistry                                                      *)

\* A key of index.json: blank when it is "" or only white space
PluginKey(j) == [blank |-> FALSE, n |-> j]
EmptyKey == [blank |-> TRUE, n |-> 0]       \* ""
SpaceKey == [blank |-> TRUE, n |-> 1]       \* " "

RegistryValues == {RefOwnerRepo, RefOwnerOnly, RefOtherHost, RefNotString}

\* The keys of an object are distinct
KeysAt(j) ==
  IF j = 1 THEN {EmptyKey, PluginKey(1)}
  ELSE IF j = 2 THEN {SpaceKey, PluginKey(2)}
  ELSE {PluginKey(j)}

Registries ==
  UNION { { r \in [1..n -> [key : UNION { KeysAt(j) : j \in 1..n },
                            value : RegistryValues]] :
              \A j \in 1..n : r[j].key \in KeysAt(j) } : n \in 0..MaxEntries }

\* line 321
KeepEntry(e) == ~e.key.blank /\ e.value.str /\ e.value.github

\* lines 319-326
RECURSIVE filterRegistry(_)
filterRegistry(r) ==
  IF r = <<>> THEN <<>>
  ELSE (IF KeepEntry(Head(r)) THEN <<Head(r)>> ELSE <<>>) \o filterRegistry(Tail(r))

NoTask == [world |-> WorldDown, out |-> Rejected]

RunStart(r, bs) ==
  /\ registry = r
  /\ batchSize = bs
  /\ ppc = "start"
  /\ entries = <<>>
  /\ idx = 0
  /\ task = [j \in 1..Len(r) |-> "idle"]
  /\ taskResult = [j \in 1..Len(r) |-> NoTask]
  /\ started = [j \in 1..Len(r) |-> 0]
  /\ invoked = {}
  /\ report = {}

RunIdle == RunStart(<<>>, 1)

Min(a, b) == IF a < b THEN a ELSE b

\* a slice one entry too long
BatchOffByOne == (idx + 1)..Min(idx + batchSize + 1, Len(entries))

\* line 338: the positions of entries.slice(i, i + batchSize)
Batch == (idx + 1)..Min(idx + batchSize, Len(entries))

\* lines 309-316: index.json cannot be read or parsed
ReadFails ==
  /\ ppc = "start"
  /\ ppc' = "failed"
  /\ UNCHANGED <<registry, batchSize, entries, idx, task, taskResult, started,
                 invoked, report>>
  /\ UNCHANGED <<selVars, repoVars>>

\* lines 309-335
FilterEntries ==
  /\ ppc = "start"
  /\ entries' = filterRegistry(registry)
  /\ ppc' = "loop"
  /\ UNCHANGED <<registry, batchSize, idx, task, taskResult, started, invoked, report>>
  /\ UNCHANGED <<selVars, repoVars>>

\* lines 337-346: every processRepo of the batch is called
StartBatch ==
  /\ ppc = "loop"
  /\ idx < Len(entries)
  /\ task' = [j \in DOMAIN task |-> IF j \in Batch THEN "running" ELSE task[j]]
  /\ started' = [j \in DOMAIN started |->
                   IF j \in Batch THEN started[j] + 1 ELSE started[j]]
  /\ invoked' = invoked \cup { entries[j] : j \in Batch }
  /\ ppc' = "await"
  /\ UNCHANGED <<registry, batchSize, entries, idx, taskResult, report>>
  /\ UNCHANGED <<selVars, repoVars>>

\* One processRepo of the batch settles
TaskSettle(j) ==
  /\ ppc = "await"
  /\ j \in DOMAIN task
  /\ task[j] = "running"
  /\ \E w \in Worlds :
       LET out == processRepo(entries[j].value, w)
       IN /\ task' = [task EXCEPT ![j] = out.st]
          /\ taskResult' = [taskResult EXCEPT ![j] = [world |-> w, out |-> out]]
  /\ UNCHANGED <<registry, batchSize, ppc, entries, idx, started, invoked, report>>
  /\ UNCHANGED <<selVars, repoVars>>

\* line 348: Promise.all is rejected with the first rejection; parseRegistry
\* throws and main exits with code 1 (lines 402-405)
Abort ==
  /\ ppc = "await"
  /\ \E j \in Batch : task[j] = "rejected"
  /\ ppc' = "aborted"
  /\ UNCHANGED <<registry, batchSize, entries, idx, task, taskResult, started,
                 invoked, report>>
  /\ UNCHANGED <<selVars, repoVars>>

\* lines 348-360: Promise.all is fulfilled, the results go into the report
CollectBatch ==
  /\ ppc = "await"
  /\ \A j \in Batch : task[j] = "fulfilled"
  /\ report' = { e \in report : \A j \in Batch : e.id # entries[j].key }
               \cup { [id |-> entries[j].key, info |-> taskResult[j].out.info] :
                        j \in Batch }
  /\ IF idx + batchSize < Len(entries)
     THEN ppc' = "delay" /\ idx' = idx
     ELSE ppc' = "loop" /\ idx' = idx + batchSize
  /\ UNCHANGED <<registry, batchSize, entries, task, taskResult, started, invoked>>
  /\ UNCHANGED <<selVars, repoVars>>

\* line 359: the delay between batches has elapsed
DelayElapsed ==
  /\ ppc = "delay"
  /\ idx' = idx + batchSize
  /\ ppc' = "loop"
  /\ UNCHANGED <<registry, batchSize, entries, task, taskResult, started, invoked,
                 report>>
  /\ UNCHANGED <<selVars, repoVars>>

\* lines 337 and 373-376: the loop ends, the report is returned
Finish ==
  /\ ppc = "loop"
  /\ idx >= Len(entries)
  /\ ppc' = "done"
  /\ UNCHANGED <<registry, batchSize, entries, idx, task, taskResult, started,
                 invoked, report>>
  /\ UNCHANGED <<selVars, repoVars>>

-----------------------------------------------------------------------------
(* The specifications                                                       *)

InitSel ==
  /\ selData \in Responses
  /\ selGit = Pending
  /\ selNpm = Pending
  /\ RepoIdle
  /\ RunIdle

NextSel == RunGetLatestGitTags \/ RunInspectNpm

SpecSel == InitSel /\ [][NextSel]_vars

InitRepo ==
  /\ SelIdle
  /\ \E ref \in GitRefs : RepoStart(ref)
  /\ RunIdle

NextRepo ==
  \/ Invoke
  \/ BranchesOk
  \/ BranchesFail
  \/ \E b \in CandidateNames : PkgOk(b)
  \/ \E b \in CandidateNames : PkgNoContent(b)
  \/ \E b \in CandidateNames : PkgFail(b)
  \/ TagsResolve
  \/ NpmResolve
  \/ Classify
  \/ Return
  \/ UnhandledRejection

SpecRepo == InitRepo /\ [][NextRepo]_vars

Init ==
  /\ SelIdle
  /\ RepoIdle
  /\ \E r \in Registries, bs \in 1..MaxBatch : RunStart(r, bs)

Next ==
  \/ ReadFails
  \/ FilterEntries
  \/ StartBatch
  \/ \E j \in 1..MaxEntries : TaskSettle(j)
  \/ Abort
  \/ CollectBatch
  \/ DelayElapsed
  \/ Finish

Spec == Init /\ [][Next]_vars

-----------------------------------------------------------------------------
(* Properties of the selectors (SpecSel)                                    *)

Tracks == {"v0", "v1"}
MajorOf(m) == IF m = "v0" THEN 0 ELSE 1
TrackOf(sel, m) == IF m = "v0" THEN sel.v0 ELSE sel.v1

\* The versions of major ma the source holds
OfMajor(list, ma) == { v \in Range(list) : v.kind = "semver" /\ v.major = ma }

HighestOf(x, S) == x \in S /\ \A y \in S : ~Gt(clean(y), clean(x))

\* The selection the specification asks for: the highest stable version of
\* the major, the highest prerelease when there is no stable one, else null
Selected(x, list, ma) ==
  LET all == OfMajor(list, ma)
      stable == { v \in all : v.pre = 0 }
  IN IF stable # {} THEN HighestOf(x, stable)
     ELSE IF all # {} THEN HighestOf(x, all)
     ELSE x = Null

\* C5: for each source and each major in {0, 1}, the selected version is the
\* highest stable version of that major when one exists, else the highest
\* prerelease of it, else null.
C5_StablePreferred ==
  /\ selGit.st = "ok" =>
       \A m \in Tracks : Selected(TrackOf(selGit, m), selData.list, MajorOf(m))
  /\ selNpm.st = "ok" =>
       \A m \in Tracks : Selected(TrackOf(selNpm, m), selData.list, MajorOf(m))

-----------------------------------------------------------------------------
(* Properties of processRepo (SpecRepo)                                     *)

Found == { b \in Range(branchCandidates(branches.list)) : pkgResults[b].st = "pkg" }

\* A manifest is compatible with a track: its range is present, its declared
\* major is that of the track and the probe of the track satisfies the range
Compatible(p, m) ==
  /\ p.coreRange.kind # "absent"
  /\ p.version.kind = "semver"
  /\ IF m = "v0"
     THEN p.version.major = 0 /\ satisfies(Probe0, p.coreRange)
     ELSE p.version.major >= 1 /\ satisfies(Probe1, p.coreRange)

manifestSupports(m) == \E b \in Found : Compatible(pkgResults[b], m)

Signal(m) ==
  \/ manifestSupports(m)
  \/ TrackOf(gitTagInfo, m) # Null
  \/ TrackOf(npmInfo, m) # Null

\* C1: a track is reported as supported only if a manifest on a candidate
\* branch is compatible with it, or a version of it was selected from the git
\* tags or from npm; with no data at all both flags are false.
C1_SupportNeedsSignal ==
  rpc = "returned" => \A m \in Tracks : supports[m] => Signal(m)

C1_Witness ==
  /\ rpc = "returned"
  /\ supports.v1 /\ ~supports.v0
  /\ Found = {}

\* C2 (as stated): the reported flag of a track equals manifestSupports OR a git-tag
\* version of the track was selected OR an npm version of it was selected.
C2_SupportIsDisjunction ==
  rpc = "returned" => \A m \in Tracks : supports[m] = Signal(m)

\* C2 (amended): the reported flag of a track equals manifestSupports OR an
\* npm version of the track was selected; a git tag alone does not set it.
C2_SupportIsManifestOrNpm ==
  rpc = "returned" =>
    \A m \in Tracks : supports[m] = (manifestSupports(m) \/ TrackOf(npmInfo, m) # Null)

\* the only signal of v0 is a git tag, and v0 is reported as not supported
C2_Witness ==
  /\ rpc = "returned"
  /\ gitTagInfo.v0 # Null /\ npmInfo.v0 = Null /\ ~manifestSupports("v0")
  /\ ~supports.v0
  /\ supports.v1

\* The first branch, in the order of the candidates, whose manifest was
\* positive for the track
FirstPositive(m) ==
  LET pos == { i \in DOMAIN pkgSignals : pkgSignals[i][m] }
  IN IF pos = {} THEN NoBranch
     ELSE pkgSignals[CHOOSE i \in pos : \A k \in pos : i <= k].branch

\* C6: when several manifests are positive for a track, the branch recorded
\* for it is the first of them in the probe order main, master, 0.x, 1.x.
C6_FirstMatchWins ==
  rpc = "returned" => \A m \in Tracks : gitInfo[m].branch = FirstPositive(m)

\* C7: a version string semver rejects (a tag name, an npm version key, the
\* version of a manifest) never raises: getLatestGitTags, inspectNpm and
\* processRepo complete without throwing.
C7_NeverRaises ==
  /\ gitTagInfo.st # "thrown"
  /\ npmInfo.st # "thrown"
  /\ parseGitRef(gitRef).ok => rpc \notin {"thrown", "crashed"}

\* C8: a manifest gives a v0 signal iff its range is present, its declared
\* major is 0 and 0.9.0 satisfies the range; a v1 signal iff its range is
\* present, its declared major is at least 1 and 1.0.0 satisfies the range;
\* no manifest gives both, and the flags of the loop are exactly the signals.
C8_ManifestSignal ==
  /\ \A i \in DOMAIN pkgSignals :
       LET sig == pkgSignals[i]
           p == pkgResults[sig.branch]
       IN /\ sig.branch \in Found
          /\ \A m \in Tracks : sig[m] <=> Compatible(p, m)
          /\ ~(sig.v0 /\ sig.v1)
  /\ rpc = "await" =>
       /\ { pkgSignals[i].branch : i \in DOMAIN pkgSignals } = Found
       /\ \A m \in Tracks : supports[m] <=> manifestSupports(m)
       /\ \A m \in Tracks : supportedBranches[m] # NoBranch <=> manifestSupports(m)

\* a manifest of major 0 whose range only 1.0.0 satisfies, and one that
\* gives the v1 signal
C8_Witness ==
  /\ rpc = "await"
  /\ \E i, k \in DOMAIN pkgSignals :
       /\ pkgResults[pkgSignals[i].branch] = Pkg(Ver050, RangeCaret10)
       /\ ~pkgSignals[i].v0 /\ ~pkgSignals[i].v1
       /\ pkgSignals[k].v1

\* C9: the reported version of a track is the one selected from the git tags
\* when there is one, else the one selected from npm, else null.
C9_GitVersionFirst ==
  rpc = "returned" =>
    \A m \in Tracks :
      gitInfo[m].version =
        IF TrackOf(gitTagInfo, m) # Null THEN TrackOf(gitTagInfo, m)
        ELSE IF TrackOf(npmInfo, m) # Null THEN TrackOf(npmInfo, m)
        ELSE Null

C9_Witness ==
  /\ rpc = "returned"
  /\ gitTagInfo.v0 # Null /\ npmInfo.v0 # Null /\ gitTagInfo.v0 # npmInfo.v0
  /\ gitTagInfo.v1 = Null /\ npmInfo.v1 # Null
  /\ manifestSupports("v1")

-----------------------------------------------------------------------------
(* Properties of parseRegistry (Spec)                                       *)

\* the literal form "github:<owner>/<repo>"
LiteralForm(v) ==
  v.str /\ v.github /\ Len(v.segs) = 2 /\ v.segs[1] # "" /\ v.segs[2] # ""

Reported(k) == \E e \in report : e.id = k

\* C4: an entry whose key is empty or whose value is not of the form
\* "github:<owner>/<repo>" is removed by the filter: processRepo is never
\* invoked on it and it is not in the report.
C4_MalformedFiltered ==
  \A j \in DOMAIN registry :
    (registry[j].key.blank \/ ~LiteralForm(registry[j].value)) =>
      registry[j] \notin invoked /\ ~Reported(registry[j].key)

SourceFailed(w) == ~w.branches.ok \/ ~w.tags.ok \/ ~w.npm.ok

\* C3: a fetch failure of one source of one plugin does not keep processRepo
\* from returning an entry for that plugin, and the run is not aborted.
C3_FailureIsNoSignal ==
  \A j \in DOMAIN entries :
    (task[j] \in {"fulfilled", "rejected"} /\ SourceFailed(taskResult[j].world)
       /\ LiteralForm(entries[j].value))
      => task[j] = "fulfilled" /\ ppc # "aborted"

\* What does hold of the failures: a plugin whose reference parses and whose
\* sources hold no string semver rejects is always given an entry, whichever
\* of its sources failed.
NoGarbage(w) ==
  /\ Garbage \notin Range(w.tags.list) \cup Range(w.npm.list)
  /\ \A b \in CandidateNames : w.pkgs[b].version # Garbage

FetchFailuresRecovered ==
  \A j \in DOMAIN entries :
    (task[j] \in {"fulfilled", "rejected"} /\ NoGarbage(taskResult[j].world)
       /\ parseGitRef(entries[j].value).ok)
      => task[j] = "fulfilled"

InFlight == { j \in DOMAIN task : task[j] = "running" }

BatchOf(j) == (j - 1) \div batchSize

\* C10: at most BATCH_SIZE processRepo invocations are in flight; no plugin
\* of a later batch starts before every plugin of the earlier batches has
\* finished and the delay has elapsed; each filtered entry is processed once,
\* and when the loop ends the report has one entry per filtered identifier.
C10_Batches ==
  /\ Cardinality(InFlight) <= batchSize
  /\ \A j, k \in DOMAIN entries :
       BatchOf(j) < BatchOf(k) /\ task[k] # "idle" => task[j] = "fulfilled"
  /\ ppc = "delay" => \A k \in DOMAIN entries : k > idx + batchSize => task[k] = "idle"
  /\ \A j \in DOMAIN started : started[j] <= 1
  /\ ppc = "done" =>
       /\ \A j \in DOMAIN entries : started[j] = 1 /\ task[j] = "fulfilled"
       /\ { e.id : e \in report } = { entries[j].key : j \in DOMAIN entries }
       /\ Cardinality(report) = Len(entries)

C10_Witness ==
  /\ ppc = "done"
  /\ batchSize >= 2
  /\ Len(entries) > batchSize

====
